---- MODULE Spec2Model ----
(***************************************************************************)
(* The capture engine of the Allwinner CSI1 V4L2 driver (sun4i_csi1.c):   *)
(* the pending buffer list, the two hardware slots, the scratch ("dummy")  *)
(* buffer, the power sequence and the frame-done interrupt.                *)
(*                                                                         *)
(* Two execution contexts are modelled.  The control context runs the vb2  *)
(* callbacks (buf_prepare/buf_queue, queue_setup, start_streaming,         *)
(* stop_streaming); vb2_queue_lock serialises them, so one runs at a time, *)
(* but each is split at the places where it releases buffer_lock.  The     *)
(* interrupt context runs sun4i_csi1_isr and interleaves with the control  *)
(* context wherever buffer_lock is free.  A step of the interrupt handler   *)
(* is one critical section or the code after it; a step of a callback is   *)
(* one critical section together with the lock-free code that follows it   *)
(* (a vb2_buffer_done call, which touches the completed buffer only and so  *)
(* commutes with the critical sections of the interrupt handler).          *)
(***************************************************************************)
EXTENDS Integers, Sequences, FiniteSets, TLC

\* ---- bounds of the model ------------------------------------------------
NumBuffers == 3     \* vb2 buffers allocated by REQBUFS
MaxEnqueue == 6     \* buf_queue calls in a behaviour
MaxStart   == 2     \* streaming sessions (engine_start calls) in a behaviour
MaxSetupEnqueue == 4   \* buf_queue calls in a behaviour of SpecSetup
MaxSetupStart   == 1   \* streaming sessions in a behaviour of SpecSetup
MaxLive         == 2     \* live allocations counted per plane of the dummy buffer
NumSprites      == 3     \* sprite planes of the backend
MaxZpos         == 2     \* highest zpos of a sprite

\* ---- program constants ----------------------------------------------------
plane_count        == 3   \* csi->plane_count
NumSlots           == 2   \* struct sun4i_csi1_buffer *buffers[2]
FRAME_DONE         == 2   \* INT_STATUS / INT_ENABLE bit of frame done (0x02)
CAPTURE_START      == 2   \* SUN4I_CSI1_CAPTURE start bit (0x02)
MODULE_ENABLE      == 1   \* SUN4I_CSI1_ENABLE module enable bit (0x01)
STATUS_OTHER       == 1   \* a bit of INT_STATUS that is not the frame-done bit

csi_width          == 1920   \* csi->width
csi_height         == 1080   \* csi->height
csi_plane_size     == csi_width * csi_height   \* csi->plane_size

NULL    == 0
Planes  == 0 .. (plane_count - 1)
Slots   == 0 .. (NumSlots - 1)
Buffers == 1 .. NumBuffers

\* ---- altered code ------------------------------------------------------------
\* Variants of definitions below, each changed the way a slip in the code
\* would change it; a property is tried against the variant to see that it
\* depends on the definition.

\* frame_done_registers with the register sets exchanged
frame_done_registers_other(index) == IF index = 0 THEN 1 ELSE 0

\* frame_done_index without the sequence number: every swap serves slot 0
frame_done_index_first(seq) == 0

\* list_first_entry taking the entry at the tail
list_last_entry(list) == list[Len(list)]

\* the label err_bus without its reset_control_assert
err_bus_forgotten == <<>>

\* spin_unlock left out: the context keeps the lock it holds
spin_unlock_forgotten(holder) == holder

\* stop_streaming releasing the dummy buffer
streaming_stop_dummy_released(dummy) == [p \in Planes |-> 0]

\* the plane loop of format_test looking at the first plane only
format_test_planes_first(new) ==
  \/ csi_width # new.plane_fmt[0].bytesperline
  \/ csi_plane_size # new.plane_fmt[0].sizeimage

\* frame_done finding the list empty and leaving the module enabled
frame_done_disable_never(enable) == enable

\* engine_start without csi->sequence = 0
engine_start_sequence_kept(seq) == seq

\* sun4i_csi1_poweron enabling the ram clock before the bus clock
poweron_calls_ram_first(k) ==
  IF k = 1 THEN <<"reset_control_deassert:failed">>
  ELSE <<"reset_control_deassert">> \o
    (IF k = 2 THEN <<"clk_prepare_enable(ram):failed", "reset_control_assert">>
     ELSE <<"clk_prepare_enable(ram)">> \o
       (IF k = 3 THEN <<"clk_prepare_enable(bus):failed",
                        "clk_disable_unprepare(ram)", "reset_control_assert">>
        ELSE <<"clk_prepare_enable(bus)">> \o
          (IF k = 4 THEN <<"clk_prepare_enable(module):failed",
                           "clk_disable_unprepare(bus)",
                           "clk_disable_unprepare(ram)", "reset_control_assert">>
           ELSE <<"clk_prepare_enable(module)">>)))

\* streaming_start without the test of what sun4i_csi1_poweron returned
poweron_failed_ignored(k) == FALSE

\* dummy_buffer_free freeing the planes without clearing their pointers
dummy_buffer_free_kept(dummy) == dummy

\* dummy_buffer_alloc without the sun4i_csi1_dummy_buffer_free it starts with
dummy_buffer_alloc_no_free == "alloc_lock"

\* the handler calling frame_done whatever status bit is raised
isr_frame_done_any(value) == value # 0

\* the table of sprites gathered by falling plane index
RECURSIVE sprites_table_descending(_)
sprites_table_descending(mask) ==
  IF mask = {} THEN <<>>
  ELSE LET p == CHOOSE q \in mask : \A r \in mask : q >= r
       IN <<p>> \o sprites_table_descending(mask \ {p})

\* the scaling test of the layer looking at the width only
layer_scaling_width(state) ==
  state.src_w # [int |-> state.crtc_w % 65536, frac |-> 0]

\* min_buffers_needed set to the number of slots
min_buffers_needed_slots == NumSlots

\* ---- vb2 queue configuration ----------------------------------------------
\* queue->min_buffers_needed, set in sun4i_csi1_vb2_queue_initialize
min_buffers_needed == 3

VARIABLES
  \* struct sun4i_csi1
  buffer_list,    \* csi->buffer_list: the queued buffers, head first
  buffers,        \* csi->buffers[2]: the buffer recorded per hardware slot, or NULL
  sequence,       \* csi->sequence
  powered,        \* csi->powered
  dummy_buffer,   \* csi->dummy_buffer: per plane the dma address, 0 when not allocated
  \* hardware
  regs,           \* the registers the engine reads and writes
  power,          \* the reset line and the three clocks
  \* vb2 queue
  num_buffers,    \* queue->num_buffers
  buf_state,      \* vb2_buffer->state of each buffer
  list_node,      \* buffer->list of each buffer: how its list_head stands
  \* execution
  buffer_lock,    \* csi->buffer_lock: "free", or the context holding it
  ctl,            \* control context: the callback running, its position and locals
  isr,            \* interrupt context: position and locals of isr/frame_done
  fault,          \* "none", or how the kernel faulted
  \* history
  completed,      \* the buffers frame_done completed since the last engine_start
  done_calls,     \* per buffer: the states it was completed with since buf_queue
  session,        \* number of engine_start calls so far
  starved,        \* a swap found the list empty since the last engine_start
  start_queue,    \* the list engine_start found, until the next buf_queue or stop
  power_log,      \* the clock and reset calls of the callback that ran last
  last,           \* the callback that ran last and what it returned
  enqueued,       \* number of buf_queue calls so far
  \* format negotiation
  v4l2_format,    \* csi->v4l2_format: the format the driver holds
  format_new,     \* the format of the request the consumer makes
  \* coherent memory
  dma_live,       \* per plane: allocations of the dummy buffer made and not freed
  dma_log,        \* the planes the last sun4i_csi1_dummy_buffer_free freed
  \* sun4i drm
  crtc_state,     \* drm_crtc_state: zpos_changed and plane_mask
  sprite_states,  \* per sprite plane its sun4i_sprite_state: state.zpos, block_id
  sprites_ret,    \* what sun4i_sprites_crtc_atomic_check returned
  layer,          \* struct sun4i_layer: frontend
  plane_state,    \* drm_plane_state of the layer: crtc_w, crtc_h, src_w, src_h, fb
  layer_state,    \* struct sun4i_layer_state: uses_frontend
  layer_ret       \* what sun4i_backend_layer_atomic_check returned

csiVars  == <<buffer_list, buffers, sequence, powered, dummy_buffer>>
hwVars   == <<regs, power>>
vb2Vars  == <<num_buffers, buf_state, list_node>>
runVars  == <<buffer_lock, ctl, isr, fault>>
histVars == <<completed, done_calls, session, starved, start_queue, power_log,
              last, enqueued>>
fmtVars  == <<v4l2_format, format_new>>
memVars  == <<dma_live, dma_log>>
drmVars  == <<crtc_state, sprite_states, sprites_ret, layer, plane_state,
              layer_state, layer_ret>>
vars     == <<csiVars, hwVars, vb2Vars, runVars, histVars, fmtVars, memVars,
              drmVars>>

\* ---- helpers ------------------------------------------------------------
RECURSIVE BitAnd(_, _)
BitAnd(a, b) ==
  IF a = 0 \/ b = 0 THEN 0
  ELSE (a % 2) * (b % 2) + 2 * BitAnd(a \div 2, b \div 2)

\* sun4i_csi1_mask: temp &= ~mask; value &= mask; write value | temp
sun4i_csi1_mask(temp, value, mask) ==
  (temp - BitAnd(temp, mask)) + BitAnd(value, mask)

\* buffer->dma_addr[plane], as buf_prepare reads it from vb2: one distinct
\* non-zero address per buffer and plane
BufferDmaAddr(b) == [p \in Planes |-> 16 * b + p + 1]

\* the addresses dma_alloc_coherent hands out for the dummy buffer
DummyDmaAddr(p) == 16 * (NumBuffers + 1) + p + 1

NoDummy == [p \in Planes |-> 0]

Remove(s, b) == SelectSeq(s, LAMBDA x : x # b)
InList(b) == \E k \in 1 .. Len(buffer_list) : buffer_list[k] = b
InSlot(b) == \E s \in Slots : buffers[s] = b

CtlIdle == [op |-> "none", pc |-> "idle", i |-> 0, owned |-> {}, again |-> FALSE]
IsrIdle == [pc |-> "idle", value |-> 0, old |-> NULL, sequence |-> 0,
            session |-> 0, disabled |-> FALSE]

\* the record kept in last: the callback and its return value
Called(call, value) == [call |-> call, ret |-> value]

Running == fault = "none"

\* spin_unlock(csi->buffer_lock) in interrupt context and
\* spin_unlock_irqrestore(csi->buffer_lock, flags) in the control context, by
\* the context that holds the lock
spin_unlock(holder) == "free"
spin_unlock_irqrestore(holder) == "free"

\* sun4i_csi1_format_initialize(csi, width, height, ...): the one format of
\* the driver, set at probe
sun4i_csi1_format_initialize(w, h) ==
  [type         |-> "V4L2_BUF_TYPE_VIDEO_CAPTURE_MPLANE",
   width        |-> w,
   height       |-> h,
   pixelformat  |-> "V4L2_PIX_FMT_YUV444M",
   field        |-> "V4L2_FIELD_NONE",
   colorspace   |-> "V4L2_COLORSPACE_RAW",
   num_planes   |-> plane_count,
   plane_fmt    |-> [p \in Planes |-> [sizeimage |-> w * h, bytesperline |-> w]],
   ycbcr_enc    |-> "V4L2_YCBCR_ENC_DEFAULT",
   quantization |-> "V4L2_QUANTIZATION_DEFAULT",
   xfer_func    |-> "V4L2_XFER_FUNC_NONE"]

\* ---- sun4i drm: sprites and layers -----------------------------------------
\* plane 0 is a backend layer, the planes after it are sprites
SpritePlanes == 1 .. NumSprites
DrmPlanes    == 0 .. NumSprites

\* backend->sprites_mask: the bit of every sprite plane
backend_sprites_mask == SpritePlanes

Zpos == 0 .. MaxZpos

\* the states before a check has run
DrmReset ==
  /\ crtc_state = [zpos_changed |-> FALSE, plane_mask |-> {}]
  /\ sprite_states = [p \in SpritePlanes |-> [zpos |-> 0, block_id |-> 0]]
  /\ sprites_ret = "none"
  /\ layer = [frontend |-> FALSE]
  /\ plane_state = [crtc_w |-> 0, crtc_h |-> 0,
                    src_w |-> [int |-> 0, frac |-> 0],
                    src_h |-> [int |-> 0, frac |-> 0], fb |-> "NULL"]
  /\ layer_state = [uses_frontend |-> FALSE]
  /\ layer_ret = "none"

\* The driver after probe: nothing queued, no buffer, no dummy buffer.
Probed ==
  /\ buffer_list = <<>>
  /\ buffers = [s \in Slots |-> NULL]
  /\ sequence = 0
  /\ powered = FALSE
  /\ dummy_buffer = NoDummy
  /\ regs = [ENABLE |-> 0, CAPTURE |-> 0, BUFFER_CONTROL |-> 0,
             INT_ENABLE |-> 0, INT_STATUS |-> 0,
             FIFO |-> [s \in Slots |-> [p \in Planes |-> 0]]]
  /\ power = [reset |-> "asserted", bus |-> FALSE, ram |-> FALSE,
              module |-> FALSE, unbalanced |-> FALSE]
  /\ num_buffers = 0
  /\ buf_state = [b \in Buffers |-> "DEQUEUED"]
  /\ list_node = [b \in Buffers |-> "NULL"]
  /\ buffer_lock = "free"
  /\ ctl = CtlIdle
  /\ isr = IsrIdle
  /\ fault = "none"
  /\ completed = <<>>
  /\ done_calls = [b \in Buffers |-> <<>>]
  /\ session = 0
  /\ starved = FALSE
  /\ start_queue = <<>>
  /\ power_log = <<>>
  /\ last = Called("none", "none")
  /\ enqueued = 0
  /\ v4l2_format = sun4i_csi1_format_initialize(csi_width, csi_height)
  /\ dma_live = [p \in Planes |-> 0]
  /\ dma_log = <<>>

\* ... and the consumer holds the format VIDIOC_G_FMT reports.
InitProbed == Probed /\ format_new = v4l2_format /\ DrmReset

\* The driver once the consumer has requested its buffers: queue_setup has
\* returned 0, so the dummy buffer is allocated, and vb2 has allocated the
\* buffers, zeroed, none of them prepared yet.
Init ==
  /\ buffer_list = <<>>
  /\ buffers = [s \in Slots |-> NULL]
  /\ sequence = 0
  /\ powered = FALSE
  /\ dummy_buffer = [p \in Planes |-> DummyDmaAddr(p)]
  /\ regs = [ENABLE |-> 0, CAPTURE |-> 0, BUFFER_CONTROL |-> 0,
             INT_ENABLE |-> 0, INT_STATUS |-> 0,
             FIFO |-> [s \in Slots |-> [p \in Planes |-> 0]]]
  /\ power = [reset |-> "asserted", bus |-> FALSE, ram |-> FALSE,
              module |-> FALSE, unbalanced |-> FALSE]
  /\ num_buffers = NumBuffers
  /\ buf_state = [b \in Buffers |-> "DEQUEUED"]
  /\ list_node = [b \in Buffers |-> "NULL"]
  /\ buffer_lock = "free"
  /\ ctl = CtlIdle
  /\ isr = IsrIdle
  /\ fault = "none"
  /\ completed = <<>>
  /\ done_calls = [b \in Buffers |-> <<>>]
  /\ session = 0
  /\ starved = FALSE
  /\ start_queue = <<>>
  /\ power_log = <<>>
  /\ last = Called("queue_setup", "0")
  /\ enqueued = 0
  /\ v4l2_format = sun4i_csi1_format_initialize(csi_width, csi_height)
  /\ format_new = v4l2_format
  /\ dma_live = [p \in Planes |-> 1]
  /\ dma_log = <<>>
  /\ DrmReset

\* ---- clock and reset control ---------------------------------------------
\* One call on the reset line or on a clock.  A call that failed changes
\* nothing; disabling a clock that is not enabled is noted as unbalanced.
PowerCall(pw, call) ==
  CASE call = "reset_control_deassert"        -> [pw EXCEPT !.reset = "deasserted"]
    [] call = "reset_control_assert"          -> [pw EXCEPT !.reset = "asserted"]
    [] call = "clk_prepare_enable(bus)"       -> [pw EXCEPT !.bus = TRUE]
    [] call = "clk_prepare_enable(ram)"       -> [pw EXCEPT !.ram = TRUE]
    [] call = "clk_prepare_enable(module)"    -> [pw EXCEPT !.module = TRUE]
    [] call = "clk_disable_unprepare(bus)"    ->
         IF pw.bus THEN [pw EXCEPT !.bus = FALSE]
         ELSE [pw EXCEPT !.unbalanced = TRUE]
    [] call = "clk_disable_unprepare(ram)"    ->
         IF pw.ram THEN [pw EXCEPT !.ram = FALSE]
         ELSE [pw EXCEPT !.unbalanced = TRUE]
    [] call = "clk_disable_unprepare(module)" ->
         IF pw.module THEN [pw EXCEPT !.module = FALSE]
         ELSE [pw EXCEPT !.unbalanced = TRUE]
    [] OTHER -> pw

RECURSIVE PowerCalls(_, _)
PowerCalls(pw, cs) ==
  IF cs = <<>> THEN pw ELSE PowerCalls(PowerCall(pw, Head(cs)), Tail(cs))

\* the error labels of sun4i_csi1_poweron, each falling through to the next
err_reset  == <<>>
err_bus    == <<"reset_control_assert">> \o err_reset
err_ram    == <<"clk_disable_unprepare(bus)">> \o err_bus
err_module == <<"clk_disable_unprepare(ram)">> \o err_ram

\* The calls sun4i_csi1_poweron makes when its step k fails (k = 0: none does).
poweron_calls(k) ==
  IF k = 1 THEN <<"reset_control_deassert:failed">> \o err_reset
  ELSE <<"reset_control_deassert">> \o
    (IF k = 2 THEN <<"clk_prepare_enable(bus):failed">> \o err_bus
     ELSE <<"clk_prepare_enable(bus)">> \o
       (IF k = 3 THEN <<"clk_prepare_enable(ram):failed">> \o err_ram
        ELSE <<"clk_prepare_enable(ram)">> \o
          (IF k = 4 THEN <<"clk_prepare_enable(module):failed">> \o err_module
           ELSE <<"clk_prepare_enable(module)">>)))

\* The calls sun4i_csi1_poweroff makes; it checks no return value.
poweroff_calls ==
  <<"clk_disable_unprepare(module)", "clk_disable_unprepare(ram)",
    "clk_disable_unprepare(bus)", "reset_control_assert">>

PoweronSteps == 1 .. 4

\* ret = sun4i_csi1_poweron(csi); if (ret) return ret;
poweron_failed(k) == k # 0

\* ---- vb2 ------------------------------------------------------------------
\* vb2_buffer_done(vb, state): the completion callback.  vb2 takes the buffer
\* only when it is ACTIVE (the WARN_ON the comment in buffers_mark_done
\* names); the call is recorded in done_calls either way.
vb2_buffer_done(b, state) ==
  /\ buf_state' = IF buf_state[b] = "ACTIVE"
                  THEN [buf_state EXCEPT ![b] = state] ELSE buf_state
  /\ done_calls' = [done_calls EXCEPT ![b] = Append(@, state)]

\* ---- consumer: buf_prepare + buf_queue --------------------------------------
\* vb2 queues a buffer the consumer owns: buf_prepare (INIT_LIST_HEAD, dma
\* addresses), state ACTIVE, then buf_queue (list_add_tail under the lock).
\* Re-initialising a list_head that is still linked corrupts the list.
Enqueue(b) ==
  /\ Running /\ ctl.pc = "idle" /\ buffer_lock = "free"
  /\ enqueued < MaxEnqueue
  /\ b <= num_buffers
  /\ buf_state[b] # "ACTIVE"
  /\ enqueued' = enqueued + 1
  /\ UNCHANGED <<fmtVars, memVars, drmVars>>
  /\ IF list_node[b] = "linked"
     THEN /\ fault' = "list_corruption"
          /\ UNCHANGED <<buffer_list, list_node, buf_state, done_calls>>
     ELSE /\ buffer_list' = Append(buffer_list, b)
          /\ list_node' = [list_node EXCEPT ![b] = "linked"]
          /\ buf_state' = [buf_state EXCEPT ![b] = "ACTIVE"]
          /\ done_calls' = [done_calls EXCEPT ![b] = <<>>]
          /\ fault' = fault
  /\ start_queue' = <<>>
  /\ power_log' = <<>>
  /\ last' = Called("buf_queue", "void")
  /\ UNCHANGED <<buffers, sequence, powered, dummy_buffer, hwVars, num_buffers,
                 buffer_lock, ctl, isr, completed, session, starved>>

\* ---- start_streaming --------------------------------------------------------
\* vb2 calls start_streaming only with min_buffers_needed buffers queued;
\* with fewer the request is refused and the driver is not entered.
StreamingStartRefused ==
  /\ Running /\ ctl.pc = "idle" /\ buffer_lock = "free"
  /\ ~powered
  /\ Len(buffer_list) < min_buffers_needed
  /\ last' = Called("start_streaming", "InsufficientBuffers")
  /\ power_log' = <<>>
  /\ UNCHANGED <<csiVars, hwVars, vb2Vars, runVars, completed, done_calls,
                 session, starved, start_queue, enqueued,
                 fmtVars, memVars, drmVars>>

\* sun4i_csi1_streaming_start up to engine_start: sun4i_csi1_poweron, where
\* step k may fail (k = 0: none), and csi->powered = true on success.
StreamingStartPoweron(k) ==
  /\ Running /\ ctl.pc = "idle" /\ buffer_lock = "free"
  /\ ~powered
  /\ session < MaxStart
  /\ Len(buffer_list) >= min_buffers_needed
  /\ power_log' = poweron_calls(k)
  /\ power' = PowerCalls(power, poweron_calls(k))
  /\ IF ~poweron_failed(k)
     THEN /\ regs' = [regs EXCEPT
                        !.ENABLE = sun4i_csi1_mask(@, MODULE_ENABLE, MODULE_ENABLE)]
          /\ powered' = TRUE
          /\ ctl' = [CtlIdle EXCEPT !.op = "streaming_start", !.pc = "engine_start"]
          /\ last' = Called("start_streaming", "none")
     ELSE /\ last' = Called("start_streaming", "error")
          /\ UNCHANGED <<regs, powered, ctl>>
  /\ UNCHANGED <<buffer_list, buffers, sequence, dummy_buffer, vb2Vars,
                 buffer_lock, isr, fault, completed, done_calls, session,
                 starved, start_queue, enqueued,
                 fmtVars, memVars, drmVars>>

\* list_first_entry(csi->buffer_list, ...)
list_first_entry(list) == Head(list)

\* csi->sequence = 0
engine_start_sequence(seq) == 0

\* sun4i_csi1_engine_start, one critical section.  list_first_entry of an
\* empty list yields a pointer into struct sun4i_csi1 itself.
EngineStart ==
  /\ Running /\ ctl.pc = "engine_start" /\ buffer_lock = "free"
  /\ IF Len(buffer_list) < NumSlots
     THEN /\ fault' = "oops"
          /\ UNCHANGED <<csiVars, hwVars, list_node, ctl, session, last,
                         completed, starved, start_queue>>
     ELSE LET first  == list_first_entry(buffer_list)
              second == list_first_entry(Remove(buffer_list, first))
          IN /\ sequence' = engine_start_sequence(sequence)
             /\ buffers' = [buffers EXCEPT ![0] = first, ![1] = second]
             /\ buffer_list' = Remove(Remove(buffer_list, first), second)
             /\ list_node' = [list_node EXCEPT ![first] = "self", ![second] = "self"]
             /\ regs' = [regs EXCEPT
                  !.FIFO[0] = BufferDmaAddr(first),
                  !.FIFO[1] = BufferDmaAddr(second),
                  !.BUFFER_CONTROL = 1,
                  !.INT_ENABLE = sun4i_csi1_mask(@, FRAME_DONE, FRAME_DONE),
                  !.CAPTURE = sun4i_csi1_mask(@, CAPTURE_START, CAPTURE_START)]
             /\ session' = session + 1
             /\ completed' = <<>>
             /\ starved' = FALSE
             /\ start_queue' = buffer_list
             /\ ctl' = CtlIdle
             /\ last' = [last EXCEPT !.ret = "0"]
             /\ UNCHANGED <<powered, dummy_buffer, power, fault>>
  /\ UNCHANGED <<num_buffers, buf_state, buffer_lock, isr, done_calls,
                 power_log, enqueued,
                 fmtVars, memVars, drmVars>>

\* ---- stop_streaming ---------------------------------------------------------
\* sun4i_csi1_engine_stop: write 0 to the capture register, under the lock.
\* ctl.owned notes the buffers the driver holds as the callback is entered,
\* ctl.again whether the callback that ran before was stop_streaming too.
EngineStop ==
  /\ Running /\ ctl.pc = "idle" /\ buffer_lock = "free"
  /\ regs' = [regs EXCEPT !.CAPTURE = 0]
  /\ ctl' = [CtlIdle EXCEPT
               !.op = "streaming_stop", !.pc = "mark_done",
               !.owned = {b \in Buffers : /\ buf_state[b] = "ACTIVE"
                                          /\ InList(b) \/ InSlot(b)},
               !.again = (last.call = "stop_streaming")]
  /\ last' = Called("stop_streaming", "none")
  /\ power_log' = <<>>
  /\ start_queue' = <<>>
  /\ UNCHANGED <<csiVars, power, vb2Vars, buffer_lock, isr, fault, completed,
                 done_calls, session, starved, enqueued,
                 fmtVars, memVars, drmVars>>

\* what list_del(&buffer->list) does to an entry in each condition: unlinking
\* poisons the entry; an entry that was never initialised holds NULL pointers
\* and one already deleted holds the poison pointers, which list_del
\* dereferences (or, with list debugging built in, reports and leaves alone).
list_del_outcomes(node) ==
  CASE node = "linked" -> {"deleted"}
    [] node = "self"   -> {"deleted"}
    [] node = "NULL"   -> {"oops"}
    [] node = "poison" -> {"oops", "skipped"}

\* the test guarding vb2_buffer_done in sun4i_csi1_buffers_mark_done
mark_done_active(state) == state = "ACTIVE"

\* sun4i_csi1_buffers_mark_done, one turn of the loop: list_del of
\* queue->bufs[i] under the lock, whatever its state, then complete the
\* buffer with an error if it is still active; past the last buffer the loop
\* ends.
BuffersMarkDone ==
  /\ Running /\ ctl.pc = "mark_done" /\ buffer_lock = "free"
  /\ IF ctl.i >= num_buffers
     THEN /\ ctl' = [ctl EXCEPT !.pc = "list_clear"]
          /\ UNCHANGED <<buffer_list, list_node, fault, buf_state, done_calls>>
     ELSE LET b == ctl.i + 1 IN
          \E outcome \in list_del_outcomes(list_node[b]) :
            IF outcome = "oops"
            THEN /\ fault' = "oops"
                 /\ UNCHANGED <<buffer_list, list_node, ctl, buf_state, done_calls>>
            ELSE /\ buffer_list' = IF outcome = "deleted"
                                   THEN Remove(buffer_list, b) ELSE buffer_list
                 /\ list_node' = IF outcome = "deleted"
                                 THEN [list_node EXCEPT ![b] = "poison"]
                                 ELSE list_node
                 /\ IF mark_done_active(buf_state[b])
                    THEN vb2_buffer_done(b, "ERROR")
                    ELSE UNCHANGED <<buf_state, done_calls>>
                 /\ ctl' = [ctl EXCEPT !.i = @ + 1]
                 /\ fault' = fault
  /\ buffer_lock' = IF fault' = "none" THEN spin_unlock_irqrestore("ctl") ELSE buffer_lock
  /\ UNCHANGED <<buffers, sequence, powered, dummy_buffer, hwVars, num_buffers,
                 isr, completed, session, starved, start_queue,
                 power_log, last, enqueued,
                 fmtVars, memVars, drmVars>>

\* where sun4i_csi1_dummy_buffer_alloc starts: with the call of
\* sun4i_csi1_dummy_buffer_free
dummy_buffer_alloc_entry == "dummy_free"

\* sun4i_csi1_buffer_list_clear, one turn of the loop: take the first entry
\* off the list under the lock and complete it with an error, whatever its
\* state; with the list empty the loop ends.
BufferListClear ==
  /\ Running /\ ctl.pc = "list_clear" /\ buffer_lock = "free"
  /\ IF buffer_list = <<>>
     THEN /\ ctl' = [ctl EXCEPT !.pc = IF ctl.op = "streaming_stop"
                                       THEN "poweroff"
                                       ELSE dummy_buffer_alloc_entry]
          /\ UNCHANGED <<buffer_list, list_node, buf_state, done_calls>>
     ELSE LET b == list_first_entry(buffer_list) IN
          /\ buffer_list' = Remove(buffer_list, b)
          /\ list_node' = [list_node EXCEPT ![b] = "poison"]
          /\ vb2_buffer_done(b, "ERROR")
          /\ ctl' = ctl
  /\ buffer_lock' = spin_unlock_irqrestore("ctl")
  /\ UNCHANGED <<buffers, sequence, powered, dummy_buffer, hwVars, num_buffers,
                 isr, fault, completed, session, starved,
                 start_queue, power_log, last, enqueued,
                 fmtVars, memVars, drmVars>>

\* what sun4i_csi1_streaming_stop does to the dummy buffer: it makes no call
\* of sun4i_csi1_dummy_buffer_free, the planes stay as they are
streaming_stop_dummy(dummy) == dummy

\* sun4i_csi1_poweroff and csi->powered = false: the end of stop_streaming.
PowerOff ==
  /\ Running /\ ctl.pc = "poweroff" /\ buffer_lock = "free"
  /\ regs' = [regs EXCEPT !.ENABLE = sun4i_csi1_mask(@, 0, MODULE_ENABLE)]
  /\ power_log' = poweroff_calls
  /\ power' = PowerCalls(power, poweroff_calls)
  /\ powered' = FALSE
  /\ ctl' = CtlIdle
  /\ last' = [last EXCEPT !.ret = "void"]
  /\ dummy_buffer' = streaming_stop_dummy(dummy_buffer)
  /\ UNCHANGED <<buffer_list, buffers, sequence, vb2Vars,
                 buffer_lock, isr, fault, completed, done_calls, session,
                 starved, start_queue, enqueued,
                 fmtVars, memVars, drmVars>>

\* ---- queue_setup and the dummy buffer ---------------------------------------
\* sun4i_csi1_queue_setup: report the plane sizes, then clear the buffer list
\* (the loop above) and allocate the dummy buffer.
QueueSetup ==
  /\ Running /\ ctl.pc = "idle" /\ buffer_lock = "free"
  /\ ctl' = [CtlIdle EXCEPT !.op = "queue_setup", !.pc = "list_clear"]
  /\ last' = Called("queue_setup", "none")
  /\ power_log' = <<>>
  /\ start_queue' = <<>>
  /\ dma_log' = <<>>
  /\ UNCHANGED <<csiVars, hwVars, vb2Vars, buffer_lock, isr, fault, completed,
                 done_calls, session, starved, enqueued,
                 fmtVars, dma_live, drmVars>>

\* dma_alloc_coherent and dma_free_coherent on the count of live allocations
\* of a plane; a count below 0 is a free of memory that was not allocated
dma_alloc_coherent(live) == IF live < MaxLive THEN live + 1 ELSE live
dma_free_coherent(live)  == IF live > -1 THEN live - 1 ELSE live

\* the planes of a set, in the order of the loops over the planes
RECURSIVE PlaneSeq(_)
PlaneSeq(ps) ==
  IF ps = {} THEN <<>>
  ELSE LET p == CHOOSE q \in ps : \A r \in ps : q <= r
       IN <<p>> \o PlaneSeq(ps \ {p})

\* sun4i_csi1_dummy_buffer_free: every plane that is allocated is cleared
\* under the lock and its memory freed after the unlock.
dummy_buffer_free(dummy) == [p \in Planes |-> IF dummy[p] # 0 THEN 0 ELSE dummy[p]]

\* The two calls of sun4i_csi1_dummy_buffer_free made by dummy_buffer_alloc:
\* on entry, and after a failed allocation (which returns -ENOMEM).
DummyBufferFree ==
  /\ Running /\ ctl.pc \in {"dummy_free", "alloc_failed"} /\ buffer_lock = "free"
  /\ dummy_buffer' = dummy_buffer_free(dummy_buffer)
  /\ LET freed == {p \in Planes : dummy_buffer[p] # 0} IN
     /\ dma_live' = [p \in Planes |-> IF p \in freed
                                      THEN dma_free_coherent(dma_live[p])
                                      ELSE dma_live[p]]
     /\ dma_log' = PlaneSeq(freed)
  /\ IF ctl.pc = "dummy_free"
     THEN /\ ctl' = [ctl EXCEPT !.pc = "alloc_lock"]
          /\ last' = last
     ELSE /\ ctl' = CtlIdle
          /\ last' = [last EXCEPT !.ret = "-ENOMEM"]
  /\ UNCHANGED <<buffer_list, buffers, sequence, powered, hwVars, vb2Vars,
                 buffer_lock, isr, fault, completed, done_calls, session,
                 starved, start_queue, power_log, enqueued,
                 fmtVars, drmVars>>

\* sun4i_csi1_dummy_buffer_alloc: spin_lock_irqsave before the allocation loop.
DummyAllocLock ==
  /\ Running /\ ctl.pc = "alloc_lock" /\ buffer_lock = "free"
  /\ buffer_lock' = "ctl"
  /\ ctl' = [ctl EXCEPT !.pc = "alloc_planes"]
  /\ UNCHANGED <<csiVars, hwVars, vb2Vars, isr, fault, histVars, fmtVars, memVars, drmVars>>

\* sun4i_csi1_dummy_buffer_alloc: the allocation loop, run with the lock held;
\* dma_alloc_coherent succeeds for the first n planes.  With all planes
\* allocated the call returns 0 (and vb2 then allocates the buffers the
\* request asked for); otherwise it goes on to free what it got.
DummyAllocPlanes(n) ==
  /\ Running /\ ctl.pc = "alloc_planes" /\ buffer_lock = "ctl"
  /\ dummy_buffer' = [p \in Planes |->
                        IF p < n THEN DummyDmaAddr(p) ELSE dummy_buffer[p]]
  /\ dma_live' = [p \in Planes |->
                    IF p < n THEN dma_alloc_coherent(dma_live[p]) ELSE dma_live[p]]
  /\ buffer_lock' = spin_unlock_irqrestore("ctl")
  /\ IF n = plane_count
     THEN /\ ctl' = CtlIdle
          /\ last' = [last EXCEPT !.ret = "0"]
          /\ num_buffers' = IF num_buffers = 0 THEN NumBuffers ELSE num_buffers
     ELSE /\ ctl' = [ctl EXCEPT !.pc = "alloc_failed"]
          /\ UNCHANGED <<last, num_buffers>>
  /\ UNCHANGED <<buffer_list, buffers, sequence, powered, hwVars, buf_state,
                 list_node, isr, fault, completed, done_calls, session,
                 starved, start_queue, power_log, enqueued,
                 fmtVars, dma_log, drmVars>>

\* ---- the capture hardware ---------------------------------------------------
\* The engine raises the frame-done interrupt status.  It does so only while
\* the module is enabled, capture is started and the frame-done interrupt is
\* enabled.  The status stays raised until the handler acknowledges it: no
\* other code of the driver writes SUN4I_CSI1_INT_STATUS, and the interrupt
\* line stays requested while the module is powered off.
HwRaise ==
  /\ Running
  /\ BitAnd(regs.ENABLE, MODULE_ENABLE) # 0
  /\ BitAnd(regs.CAPTURE, CAPTURE_START) # 0
  /\ BitAnd(regs.INT_ENABLE, FRAME_DONE) # 0
  /\ BitAnd(regs.INT_STATUS, FRAME_DONE) = 0
  /\ regs' = [regs EXCEPT !.INT_STATUS = @ + FRAME_DONE]
  /\ UNCHANGED <<csiVars, power, vb2Vars, runVars, histVars, fmtVars, memVars, drmVars>>

\* The engine raises a status bit other than frame done.  No interrupt is
\* enabled for it; the handler reads it along with the frame-done bit, or
\* finds it alone when it is entered for no reason of its own.
HwRaiseOther ==
  /\ Running
  /\ BitAnd(regs.ENABLE, MODULE_ENABLE) # 0
  /\ BitAnd(regs.CAPTURE, CAPTURE_START) # 0
  /\ BitAnd(regs.INT_STATUS, STATUS_OTHER) = 0
  /\ regs' = [regs EXCEPT !.INT_STATUS = @ + STATUS_OTHER]
  /\ UNCHANGED <<csiVars, power, vb2Vars, runVars, histVars, fmtVars, memVars, drmVars>>

\* if (value & 0x02)
isr_frame_done(value) == BitAnd(value, FRAME_DONE) # 0

\* ---- interrupt context ------------------------------------------------------
\* sun4i_csi1_isr up to the unlock: read the interrupt status and write it
\* back, which acknowledges the bits read.  Without the frame-done bit the
\* handler returns.
IsrEntry ==
  /\ Running /\ isr.pc = "idle" /\ buffer_lock = "free"
  /\ regs.INT_STATUS # 0
  /\ LET value == regs.INT_STATUS IN
     /\ regs' = [regs EXCEPT !.INT_STATUS = @ - BitAnd(@, value)]
     /\ isr' = [IsrIdle EXCEPT !.value = value,
                               !.pc = IF isr_frame_done(value)
                                      THEN "frame_done" ELSE "idle"]
  /\ UNCHANGED <<csiVars, power, vb2Vars, buffer_lock, ctl, fault, histVars, fmtVars, memVars, drmVars>>

\* index = sequence & 0x01
frame_done_index(seq) == seq % 2

\* if (!index) the FIFOn_BUFFER_A registers, else the FIFOn_BUFFER_B registers
frame_done_registers(index) == IF index = 0 THEN 0 ELSE 1

\* with the list empty: sun4i_csi1_mask(csi, SUN4I_CSI1_ENABLE, 0, 0x01),
\* "disable module"
frame_done_disable(enable) == sun4i_csi1_mask(enable, 0, MODULE_ENABLE)

\* sun4i_csi1_frame_done, the critical section: take the sequence number,
\* remember the buffer of slot index, and install the head of the list in the
\* slot, or with an empty list disable the module and point the slot's
\* registers at the dummy buffer.
FrameDoneSwap ==
  /\ Running /\ isr.pc = "frame_done" /\ buffer_lock = "free"
  /\ LET seq      == sequence
         index    == frame_done_index(seq)
         empty    == buffer_list = <<>>
         new      == list_first_entry(buffer_list)
         dma_addr == IF empty THEN dummy_buffer ELSE BufferDmaAddr(new)
     IN /\ sequence' = seq + 1
        /\ buffers' = [buffers EXCEPT ![index] = IF empty THEN NULL ELSE new]
        /\ buffer_list' = IF empty THEN buffer_list ELSE Remove(buffer_list, new)
        /\ list_node' = IF empty THEN list_node
                        ELSE [list_node EXCEPT ![new] = "self"]
        /\ regs' = [regs EXCEPT
             !.ENABLE = IF empty THEN frame_done_disable(@) ELSE @,
             !.FIFO[frame_done_registers(index)] = dma_addr]
        /\ starved' = (starved \/ empty)
        /\ isr' = [isr EXCEPT !.pc = "deliver", !.old = buffers[index],
                              !.sequence = seq, !.session = session,
                              !.disabled = empty]
  /\ buffer_lock' = spin_unlock("isr")
  /\ UNCHANGED <<powered, dummy_buffer, power, num_buffers, buf_state,
                 ctl, fault, completed, done_calls, session,
                 start_queue, power_log, last, enqueued,
                 fmtVars, memVars, drmVars>>

\* sun4i_csi1_frame_done after the unlock: stamp the old buffer with the
\* sequence number and complete it; old is dereferenced without a NULL test.
FrameDoneDeliver ==
  /\ Running /\ isr.pc = "deliver"
  /\ IF isr.old = NULL
     THEN /\ fault' = "oops"
          /\ UNCHANGED <<buf_state, completed, done_calls, isr>>
     ELSE /\ vb2_buffer_done(isr.old, "DONE")
          /\ completed' = Append(completed, [buffer |-> isr.old,
                                             sequence |-> isr.sequence,
                                             session |-> isr.session])
          /\ isr' = IsrIdle
          /\ fault' = fault
  /\ UNCHANGED <<csiVars, hwVars, num_buffers, list_node, buffer_lock, ctl,
                 session, starved, start_queue, power_log, last, enqueued,
                 fmtVars, memVars, drmVars>>

\* ---- specifications ---------------------------------------------------------
\* The capture engine once the buffers are requested: buf_queue,
\* start_streaming, stop_streaming, the hardware and the interrupt handler.
Next ==
  \/ \E b \in Buffers : Enqueue(b)
  \/ StreamingStartRefused
  \/ \E k \in {0} \cup PoweronSteps : StreamingStartPoweron(k)
  \/ EngineStart
  \/ EngineStop
  \/ BuffersMarkDone
  \/ BufferListClear
  \/ PowerOff
  \/ HwRaise
  \/ IsrEntry
  \/ FrameDoneSwap
  \/ FrameDoneDeliver

Spec == Init /\ [][Next]_vars

\* The interrupt is serviced and a callback that was entered runs on; what the
\* consumer calls, and when, is left open.
Fairness ==
  /\ WF_vars(HwRaise)
  /\ WF_vars(IsrEntry)
  /\ WF_vars(FrameDoneSwap)
  /\ WF_vars(FrameDoneDeliver)
  /\ WF_vars(EngineStart)
  /\ WF_vars(BuffersMarkDone)
  /\ WF_vars(BufferListClear)
  /\ WF_vars(PowerOff)

FairSpec == Init /\ [][Next]_vars /\ Fairness

\* The driver from probe on, with the buffer requests of the consumer:
\* queue_setup and the dummy buffer it allocates.
NextSetup ==
  \/ \E b \in Buffers : Enqueue(b) /\ enqueued < MaxSetupEnqueue
  \/ StreamingStartRefused
  \/ \E k \in {0} \cup PoweronSteps :
       StreamingStartPoweron(k) /\ session < MaxSetupStart
  \/ EngineStart
  \/ EngineStop
  \/ BuffersMarkDone
  \/ BufferListClear
  \/ PowerOff
  \/ HwRaise
  \/ IsrEntry
  \/ FrameDoneSwap
  \/ FrameDoneDeliver
  \/ QueueSetup
  \/ DummyBufferFree
  \/ DummyAllocLock
  \/ \E n \in 0 .. plane_count : DummyAllocPlanes(n)

SpecSetup == InitProbed /\ [][NextSetup]_vars

\* The capture engine with every status bit the handler may read.
NextIsr ==
  \/ Next
  \/ HwRaiseOther

SpecIsr == Init /\ [][NextIsr]_vars

\* ---- format negotiation ------------------------------------------------------
\* sun4i_csi1_format_test, the loop over the planes: a plane whose line
\* length or size is not the driver's
format_test_planes(new) ==
  \E i \in Planes :
    \/ csi_width # new.plane_fmt[i].bytesperline
    \/ csi_plane_size # new.plane_fmt[i].sizeimage

\* sun4i_csi1_format_test(csi, format_new), old being csi->v4l2_format
sun4i_csi1_format_test(old, new) ==
  IF old.type # new.type THEN "-EINVAL"
  ELSE IF \/ csi_width # new.width
          \/ csi_height # new.height
          \/ plane_count # new.num_planes THEN "-EINVAL"
  ELSE IF format_test_planes(new) THEN "-EINVAL"
  ELSE IF \/ old.pixelformat # new.pixelformat
          \/ old.field # new.field
          \/ old.colorspace # new.colorspace
          \/ old.quantization # new.quantization
          \/ old.xfer_func # new.xfer_func THEN "-EINVAL"
  ELSE "0"

\* sun4i_csi1_ioctl_format_set: the result of format_test, nothing stored
IoctlFormatSet ==
  /\ Running
  /\ last' = Called("VIDIOC_S_FMT", sun4i_csi1_format_test(v4l2_format, format_new))
  /\ UNCHANGED <<csiVars, hwVars, vb2Vars, runVars, completed, done_calls,
                 session, starved, start_queue, power_log, enqueued, fmtVars, memVars, drmVars>>

\* sun4i_csi1_ioctl_format_try: the same
IoctlFormatTry ==
  /\ Running
  /\ last' = Called("VIDIOC_TRY_FMT", sun4i_csi1_format_test(v4l2_format, format_new))
  /\ UNCHANGED <<csiVars, hwVars, vb2Vars, runVars, completed, done_calls,
                 session, starved, start_queue, power_log, enqueued, fmtVars, memVars, drmVars>>

\* The formats a consumer asks for: every field either as the driver holds it
\* or different.
FormatRequests ==
  [type         : {"V4L2_BUF_TYPE_VIDEO_CAPTURE_MPLANE", "V4L2_BUF_TYPE_VIDEO_CAPTURE"},
   width        : {csi_width, 1280},
   height       : {csi_height, 720},
   pixelformat  : {"V4L2_PIX_FMT_YUV444M", "V4L2_PIX_FMT_YUV420M"},
   field        : {"V4L2_FIELD_NONE", "V4L2_FIELD_INTERLACED"},
   colorspace   : {"V4L2_COLORSPACE_RAW", "V4L2_COLORSPACE_SRGB"},
   num_planes   : {plane_count, 1},
   plane_fmt    : [Planes -> [sizeimage : {csi_plane_size, 1280 * 720},
                              bytesperline : {csi_width, 1280}]],
   ycbcr_enc    : {"V4L2_YCBCR_ENC_DEFAULT", "V4L2_YCBCR_ENC_709"},
   quantization : {"V4L2_QUANTIZATION_DEFAULT", "V4L2_QUANTIZATION_FULL_RANGE"},
   xfer_func    : {"V4L2_XFER_FUNC_NONE", "V4L2_XFER_FUNC_709"}]

\* The format requests of a consumer against the driver after probe.
InitFormat == Probed /\ format_new \in FormatRequests /\ DrmReset

NextFormat ==
  \/ IoctlFormatSet
  \/ IoctlFormatTry

SpecFormat == InitFormat /\ [][NextFormat]_vars

\* drm_for_each_plane_mask gathering table[]: the planes of the mask by
\* rising plane index
RECURSIVE sprites_table(_)
sprites_table(mask) ==
  IF mask = {} THEN <<>>
  ELSE LET p == CHOOSE q \in mask : \A r \in mask : q <= r
       IN <<p>> \o sprites_table(mask \ {p})

\* lowest starts at 0xFF and highest at 0; each plane of the table moves them
sprites_lowest(table, states) ==
  LET zs == {states[table[i]].zpos : i \in 1 .. Len(table)} \cup {255}
  IN CHOOSE z \in zs : \A y \in zs : z <= y

sprites_highest(table, states) ==
  LET zs == {states[table[i]].zpos : i \in 1 .. Len(table)} \cup {0}
  IN CHOOSE z \in zs : \A y \in zs : z >= y

\* for (i = 0; i < count; i++): the entries of the table at one zpos take the
\* next block ids
RECURSIVE sprites_block_loop(_, _, _, _, _)
sprites_block_loop(table, states, zpos, i, block) ==
  IF i > Len(table) THEN [states |-> states, block |-> block]
  ELSE IF states[table[i]].zpos = zpos
       THEN sprites_block_loop(table,
                               [states EXCEPT ![table[i]].block_id = block],
                               zpos, i + 1, block + 1)
       ELSE sprites_block_loop(table, states, zpos, i + 1, block)

\* for (zpos = lowest; zpos <= highest; zpos++)
RECURSIVE sprites_zpos_loop(_, _, _, _, _)
sprites_zpos_loop(table, states, zpos, highest, block) ==
  IF zpos > highest THEN states
  ELSE LET turn == sprites_block_loop(table, states, zpos, 1, block)
       IN sprites_zpos_loop(table, turn.states, zpos + 1, highest, turn.block)

\* sun4i_sprites_crtc_atomic_check: the sprite states it leaves
sun4i_sprites_crtc_atomic_check(crtc, states) ==
  LET sprites_mask == crtc.plane_mask \cap backend_sprites_mask
      table        == sprites_table(sprites_mask)
  IN IF ~crtc.zpos_changed THEN states
     ELSE IF sprites_mask = {} THEN states
     ELSE sprites_zpos_loop(table, states, sprites_lowest(table, states),
                            sprites_highest(table, states), 0)

SpritesCrtcAtomicCheck ==
  /\ sprites_ret = "none"
  /\ sprite_states' = sun4i_sprites_crtc_atomic_check(crtc_state, sprite_states)
  /\ sprites_ret' = "0"
  /\ UNCHANGED <<csiVars, hwVars, vb2Vars, runVars, histVars, fmtVars, memVars,
                 crtc_state, layer, plane_state, layer_state, layer_ret>>

\* The crtc states a commit may bring: zpos changed or not, any planes
\* enabled, the sprites at any zpos and with any block ids left by an earlier
\* check.
InitSprites ==
  /\ Probed /\ format_new = v4l2_format
  /\ crtc_state \in [zpos_changed : BOOLEAN, plane_mask : SUBSET DrmPlanes]
  /\ sprite_states \in [SpritePlanes -> [zpos : Zpos, block_id : 0 .. (NumSprites - 1)]]
  /\ sprites_ret = "none"
  /\ layer = [frontend |-> FALSE]
  /\ plane_state = [crtc_w |-> 0, crtc_h |-> 0,
                    src_w |-> [int |-> 0, frac |-> 0],
                    src_h |-> [int |-> 0, frac |-> 0], fb |-> "NULL"]
  /\ layer_state = [uses_frontend |-> FALSE]
  /\ layer_ret = "none"

NextSprites == SpritesCrtcAtomicCheck

SpecSprites == InitSprites /\ [][NextSprites]_vars

\* a uint32_t shifted left by 16, as a 16.16 fixed point number: the low 16
\* bits of the value become the integer part, the bits above are lost
shl16(value) == [int |-> value % 65536, frac |-> 0]

\* if (((state->crtc_w << 16) != state->src_w) ||
\*     ((state->crtc_h << 16) != state->src_h))
layer_scaling(state) ==
  \/ shl16(state.crtc_w) # state.src_w
  \/ shl16(state.crtc_h) # state.src_h

\* format->is_yuv of state->fb, for a state that has a framebuffer
layer_fb_is_yuv(state) == state.fb = "yuv"

\* sun4i_backend_layer_atomic_check: what it returns and the uses_frontend
\* it leaves
sun4i_backend_layer_atomic_check(l, state, uses_frontend) ==
  IF layer_scaling(state) /\ ~l.frontend
  THEN [ret |-> "-EINVAL", uses_frontend |-> uses_frontend]
  ELSE LET scaled == IF layer_scaling(state) THEN TRUE
                     ELSE IF l.frontend THEN FALSE
                     ELSE uses_frontend
       IN [ret |-> "0",
           uses_frontend |->
             IF l.frontend /\ ~scaled /\ state.fb # "NULL" /\ layer_fb_is_yuv(state)
             THEN TRUE ELSE scaled]

LayerAtomicCheck ==
  /\ layer_ret = "none"
  /\ LET result == sun4i_backend_layer_atomic_check(layer, plane_state,
                                                    layer_state.uses_frontend)
     IN /\ layer_ret' = result.ret
        /\ layer_state' = [layer_state EXCEPT !.uses_frontend = result.uses_frontend]
  /\ UNCHANGED <<csiVars, hwVars, vb2Vars, runVars, histVars, fmtVars, memVars,
                 crtc_state, sprite_states, sprites_ret, layer, plane_state>>

\* sizes on the crtc, in pixels, one of them beyond 16 bits; sizes of the
\* source, in 16.16 fixed point
CrtcSizes == {0, 1, 2, 65537}
SrcSizes  == [int : {0, 1, 2}, frac : {0, 32768}]

\* The plane states a commit may bring to a layer with or without frontend.
InitLayer ==
  /\ Probed /\ format_new = v4l2_format
  /\ crtc_state = [zpos_changed |-> FALSE, plane_mask |-> {}]
  /\ sprite_states = [p \in SpritePlanes |-> [zpos |-> 0, block_id |-> 0]]
  /\ sprites_ret = "none"
  /\ layer \in [frontend : BOOLEAN]
  /\ plane_state \in [crtc_w : CrtcSizes, crtc_h : CrtcSizes,
                      src_w : SrcSizes, src_h : SrcSizes,
                      fb : {"NULL", "rgb", "yuv"}]
  /\ layer_state \in [uses_frontend : BOOLEAN]
  /\ layer_ret = "none"

NextLayer == LayerAtomicCheck

SpecLayer == InitLayer /\ [][NextLayer]_vars

TypeOK ==
  /\ buffer_list \in Seq(Buffers)
  /\ buffers \in [Slots -> Buffers \cup {NULL}]
  /\ sequence \in Nat
  /\ powered \in BOOLEAN
  /\ buf_state \in [Buffers -> {"DEQUEUED", "ACTIVE", "DONE", "ERROR"}]
  /\ list_node \in [Buffers -> {"NULL", "self", "linked", "poison"}]
  /\ \A b \in Buffers : list_node[b] = "linked" <=> InList(b)
  /\ buffer_lock \in {"free", "ctl"}
  /\ fault \in {"none", "oops", "list_corruption"}
  /\ starved \in BOOLEAN
  /\ v4l2_format = sun4i_csi1_format_initialize(csi_width, csi_height)
  /\ format_new \in FormatRequests
  /\ dma_live \in [Planes -> -1 .. MaxLive]
  /\ dma_log \in Seq(Planes)

\* ---- C1 ---------------------------------------------------------------------
\* the hardware registers of slot s written with the addresses of buffer b
InRegisters(b, s) == regs.FIFO[s] = BufferDmaAddr(b)

\* the buffers bound to the hardware: recorded in a slot of csi->buffers or
\* addressed by a slot's registers
HardwareBound ==
  {b \in Buffers : \E s \in Slots : buffers[s] = b \/ InRegisters(b, s)}

\* C1: in every reachable state at most 2 consumer buffers are bound to the
\* hardware, counting both the slot table and the slot address registers.
C1_AtMostTwoBound == Cardinality(HardwareBound) <= 2

\* two buffers bound after a swap, with a third one waiting in the queue
C1_Witness ==
  /\ Cardinality(HardwareBound) = 2
  /\ sequence >= 1
  /\ powered /\ ~starved
  /\ buffer_list # <<>>

\* ---- C2 ---------------------------------------------------------------------
\* C2: a buffer is completed (vb2_buffer_done) at most once per enqueue, so
\* never twice and never with both a success and an error status, whatever the
\* interleaving of frame_done with buf_queue and stop_streaming.
C2_DeliveredOncePerEnqueue ==
  \A b \in Buffers : Len(done_calls[b]) <= 1

\* ---- C3 ---------------------------------------------------------------------
\* the driver holds buffer b: queued to it and not completed yet
Held(b) == buf_state[b] = "ACTIVE" /\ (InList(b) \/ InSlot(b))

Position(b) == CHOOSE k \in 1 .. Len(buffer_list) : buffer_list[k] = b

\* the number of swaps after which buffer b is retired: the slot the next swap
\* serves is 1 away, the other slot 2, the k-th queued buffer k + 2
SwapsAway(b) ==
  IF InList(b) THEN Position(b) + 2
  ELSE IF buffers[sequence % 2] = b THEN 1 ELSE 2

SwapStep == isr.pc = "frame_done" /\ isr'.pc = "deliver"
StopReturns == ctl.op = "streaming_stop" /\ ctl.pc = "poweroff" /\ ctl'.pc = "idle"

C4_SequenceFromZero ==
  \A i \in 1 .. Len(completed) : completed[i].sequence = i - 1

\* ---- C5 ---------------------------------------------------------------------
\* C5: once a swap has found the queue empty, no swap retires a buffer until
\* start_streaming runs engine_start again, whatever is queued and whichever
\* interrupts arrive.
C5_NoRetireAfterStarvation ==
  [][(starved /\ SwapStep) => isr'.old = NULL]_vars

\* ---- C6 ---------------------------------------------------------------------
\* a step of a stop_streaming call that directly follows another one
SecondStopStep ==
  /\ ctl.again \/ ctl'.again
  /\ ctl' # ctl \/ fault' # fault

\* C6: a stop_streaming that directly follows a stop_streaming produces no
\* error and changes nothing: the driver, the hardware, the buffers and the
\* completions stay as the first call left them, the dummy buffer included.
C6_SecondStopChangesNothing ==
  [][SecondStopStep =>
       /\ fault' = "none"
       /\ UNCHANGED <<csiVars, hwVars, vb2Vars, done_calls>>]_vars

\* ---- C7 ---------------------------------------------------------------------
StepCall ==
  <<"reset_control_deassert", "clk_prepare_enable(bus)",
    "clk_prepare_enable(ram)", "clk_prepare_enable(module)">>
StepFailed ==
  <<"reset_control_deassert:failed", "clk_prepare_enable(bus):failed",
    "clk_prepare_enable(ram):failed", "clk_prepare_enable(module):failed">>
StepUndo ==
  <<"reset_control_assert", "clk_disable_unprepare(bus)",
    "clk_disable_unprepare(ram)", "clk_disable_unprepare(module)">>

\* steps 1 .. k-1 done, step k failed, steps k-1 .. 1 undone
FailedPoweron(k) ==
  SubSeq(StepCall, 1, k - 1) \o <<StepFailed[k]>> \o
  [j \in 1 .. (k - 1) |-> StepUndo[k - j]]

\* C7: when step k of the power-on sequence fails, the steps completed before
\* it are undone, each once, in the reverse of the order they were done in,
\* and nothing else is touched: the reset line is asserted and no clock runs.
C7_PoweronUnwinds ==
  last = Called("start_streaming", "error") =>
    /\ \E k \in PoweronSteps : power_log = FailedPoweron(k)
    /\ power.reset = "asserted"
    /\ ~power.bus /\ ~power.ram /\ ~power.module

\* the module clock, the last step, failed: three steps were undone
C7_Witness ==
  /\ last = Called("start_streaming", "error")
  /\ power_log = FailedPoweron(4)
  /\ Len(power_log) = 7

\* ---- C8 ---------------------------------------------------------------------
\* the completions made by the swaps of the current session, in delivery order
SessionCompleted == SelectSeq(completed, LAMBDA e : e.session = session)

\* the swap that took sequence number seq has retired buffer b but not yet
\* completed it
Retiring(b, seq) ==
  /\ isr.pc = "deliver" /\ isr.session = session
  /\ isr.old = b /\ isr.sequence = seq

StartRequest ==
  /\ ctl.pc = "idle"
  /\ last'.call = "start_streaming" /\ last' # last

\* C9: start_streaming with fewer than 3 buffers queued fails with
\* InsufficientBuffers and changes nothing: streaming stays stopped, no
\* power-on step is made, no buffer moves and the queue is as it was.
C9_StartNeedsThreeBuffers ==
  [][(StartRequest /\ Len(buffer_list) < 3) =>
       /\ last'.ret = "InsufficientBuffers"
       /\ ~powered'
       /\ power_log' = <<>>
       /\ UNCHANGED <<csiVars, hwVars, vb2Vars, done_calls>>]_vars

\* a start was refused with two buffers queued
C9_Witness ==
  /\ last = Called("start_streaming", "InsufficientBuffers")
  /\ Len(buffer_list) = 2
  /\ ctl.pc = "idle" /\ ~powered

\* ---- C10 --------------------------------------------------------------------
DeliveredWith(b, state) ==
  \E i \in 1 .. Len(done_calls[b]) : done_calls[b][i] = state

\* C10: when stop_streaming returns, every buffer that was in a slot or in the
\* queue when it was called has been completed with an error status, the
\* queue is empty, and no buffer that was completed as successful has been
\* completed again as an error.
C10_StopErrorsAllHeld ==
  [][StopReturns =>
       /\ \A b \in ctl.owned : DeliveredWith(b, "ERROR")'
       /\ buffer_list' = <<>>
       /\ \A b \in Buffers :
            \A i \in 1 .. Len(done_calls'[b]) :
              \A j \in 1 .. Len(done_calls'[b]) :
                ~(i < j /\ done_calls'[b][i] = "DONE"
                        /\ done_calls'[b][j] = "ERROR")]_vars

\* ---- C11 --------------------------------------------------------------------
\* a step of a stop_streaming call made while the device is not powered:
\* never started, start failed in poweron, or stopped before
StopWhileStopped ==
  /\ ~powered
  /\ ctl.op = "streaming_stop" \/ ctl'.op = "streaming_stop"

\* the step completes buffer b with an error
ErrorDelivered(b) ==
  /\ Len(done_calls'[b]) = Len(done_calls[b]) + 1
  /\ done_calls'[b][Len(done_calls'[b])] = "ERROR"

\* C11: a stop_streaming called while the device is stopped has no effect: it
\* makes no call on a clock or on the reset line, it completes no buffer and
\* it does not fail, so that no clock is ever disabled more often than it was
\* enabled.
C11_StopWhileStoppedNoEffect ==
  [][StopWhileStopped =>
       /\ power' = power /\ ~power'.unbalanced
       /\ power_log' = <<>>
       /\ \A b \in Buffers : ~ErrorDelivered(b)
       /\ ctl'.op = "streaming_stop" => fault' = "none"]_vars

\* ---- C12 --------------------------------------------------------------------
\* the plane addresses the registers of slot s hold after the step are those
\* of the dummy buffer
DummyInstalled(s) == regs'.FIFO[s] = dummy_buffer

\* C12: every swap points the registers of its slot at the dummy buffer if and
\* only if the buffer list was empty at the swap; with a buffer on the list
\* the swap takes the head off the list, records it in the slot and points
\* the registers at its planes.
C12_DummyIffQueueEmpty ==
  [][SwapStep =>
       LET index == frame_done_index(sequence) IN
       /\ DummyInstalled(index) <=> buffer_list = <<>>
       /\ buffer_list = <<>> => buffers'[index] = NULL
       /\ buffer_list # <<>> =>
            /\ buffers'[index] = Head(buffer_list)
            /\ buffer_list' = Tail(buffer_list)
            /\ regs'.FIFO[index] = BufferDmaAddr(Head(buffer_list))]_vars

\* a swap found the list empty and installed the dummy buffer in slot 1,
\* after the swap before it had installed the third buffer queued in slot 0
C12_Witness ==
  /\ isr.pc = "deliver" /\ isr.disabled /\ isr.sequence = 1
  /\ regs.FIFO[1] = dummy_buffer
  /\ buffers[0] # NULL /\ regs.FIFO[0] = BufferDmaAddr(buffers[0])
  /\ Len(completed) = 1 /\ buffers[0] # completed[1].buffer

\* ---- C13 --------------------------------------------------------------------
\* C13: in every state, also after a stop_streaming followed by new enqueues
\* and a restart, no buffer is on the buffer list and recorded in a slot at
\* the same time.
C13_QueuedNotInSlot ==
  \A b \in Buffers : ~(InList(b) /\ InSlot(b))

\* ---- C14 --------------------------------------------------------------------
\* capture is on: engine_start has set the start bit of the capture register
\* and engine_stop has not yet cleared it
Capturing == BitAnd(regs.CAPTURE, CAPTURE_START) # 0

\* the plane addresses the registers of slot s have to hold for what the slot
\* table records: those of the recorded buffer, else those of the dummy buffer
SlotAddresses(s) ==
  IF buffers[s] = NULL THEN dummy_buffer ELSE BufferDmaAddr(buffers[s])

AllocationCall == ctl.pc = "alloc_planes"

\* C15: the allocation of the dummy buffer, which may sleep, is never called
\* while the buffer lock is held.
C15_AllocationOutsideLock ==
  AllocationCall => buffer_lock = "free"

\* ---- C16 --------------------------------------------------------------------
\* the step calls vb2_buffer_done
CompletionStep == \E b \in Buffers : Len(done_calls'[b]) > Len(done_calls[b])

\* the completion is the one frame_done makes in interrupt context
IsrCompletion == isr.pc = "deliver" /\ isr'.pc = "idle"

\* C16: vb2_buffer_done is never called by a context that holds the buffer
\* lock.  frame_done delivers in a step of its own, after the step that ends
\* with its spin_unlock; buffers_mark_done and buffer_list_clear deliver as
\* the last thing of a step, after the unlock that sets the lock as the step
\* leaves it.
C16_CompletionOutsideLock ==
  [][CompletionStep =>
       IF IsrCompletion THEN buffer_lock # "isr"
       ELSE buffer_lock' # "ctl"]_vars

\* queue_setup is clearing the buffer list and has completed a buffer with an
\* error, after the interrupt handler and stop_streaming completed others
C16_Witness ==
  /\ ctl.op = "queue_setup" /\ ctl.pc = "list_clear"
  /\ \E b \in Buffers :
       /\ done_calls[b] # <<>>
       /\ done_calls[b][Len(done_calls[b])] = "ERROR"
       /\ list_node[b] = "poison" /\ buf_state[b] = "ERROR"
  /\ \E b \in Buffers : DeliveredWith(b, "DONE")
  /\ session = 1 /\ ~powered

\* ---- C17 --------------------------------------------------------------------
\* the dummy buffer could not be allocated: a plane of it has no memory
DummyUnallocated == \E p \in Planes : dummy_buffer[p] = 0

\* C17: with the memory of the dummy buffer not allocated start_streaming
\* fails and streaming stays stopped: the device is not powered and no buffer
\* is recorded in a slot.
C17_StartFailsWithoutDummy ==
  [][(StartRequest /\ DummyUnallocated) =>
       /\ last'.ret # "none" /\ last'.ret # "0"
       /\ ~powered'
       /\ power' = power
       /\ buffers' = buffers]_vars

\* ---- C18 --------------------------------------------------------------------
\* a step of a stop_streaming call
StopStep == ctl.op = "streaming_stop" \/ ctl'.op = "streaming_stop"

FormatRequest ==
  /\ last'.call \in {"VIDIOC_S_FMT", "VIDIOC_TRY_FMT"}
  /\ last' # last

\* the format asked for is not the format of the driver in one of: type,
\* width, height, number of planes, line length or size of a plane, pixel
\* format, field, colorspace, quantization, transfer function
FormatDiffers ==
  \/ format_new.type # v4l2_format.type
  \/ format_new.width # v4l2_format.width
  \/ format_new.height # v4l2_format.height
  \/ format_new.num_planes # v4l2_format.num_planes
  \/ \E p \in Planes :
       \/ format_new.plane_fmt[p].bytesperline # v4l2_format.plane_fmt[p].bytesperline
       \/ format_new.plane_fmt[p].sizeimage # v4l2_format.plane_fmt[p].sizeimage
  \/ format_new.pixelformat # v4l2_format.pixelformat
  \/ format_new.field # v4l2_format.field
  \/ format_new.colorspace # v4l2_format.colorspace
  \/ format_new.quantization # v4l2_format.quantization
  \/ format_new.xfer_func # v4l2_format.xfer_func

\* C20: a set or try request for a format that differs from the format of
\* the driver is refused with -EINVAL and changes nothing: the format the
\* driver holds, the streaming state, the buffer list and the slots stay as
\* they were.
C20_FormatMismatchRejected ==
  [][(FormatRequest /\ FormatDiffers) =>
       /\ last'.ret = "-EINVAL"
       /\ UNCHANGED <<v4l2_format, csiVars, hwVars, vb2Vars, runVars>>]_vars

\* a request was refused whose format differs from the driver's only in the
\* size of its last plane
C20_Witness ==
  /\ last = Called("VIDIOC_S_FMT", "-EINVAL")
  /\ format_new # v4l2_format
  /\ format_new = [v4l2_format EXCEPT
                     !.plane_fmt[plane_count - 1].sizeimage = 1280 * 720]

\* ---- C21 --------------------------------------------------------------------
\* the slots in the order the swaps serve them next, as a sequence of the
\* buffers they record
SlotsInOrder ==
  LET next  == frame_done_index(sequence)
      other == frame_done_index(sequence + 1)
  IN (IF buffers[next] = NULL THEN <<>> ELSE <<buffers[next]>>) \o
     (IF buffers[other] = NULL THEN <<>> ELSE <<buffers[other]>>)

\* The buffers on their way through the driver, first come first: those
\* completed as successful since engine_start, the one frame_done is about to
\* complete, those recorded in the slots, those on the buffer list.
Pipeline ==
  [i \in 1 .. Len(completed) |-> completed[i].buffer] \o
  (IF isr.pc = "deliver" /\ isr.old # NULL THEN <<isr.old>> ELSE <<>>) \o
  SlotsInOrder \o buffer_list

\* a buf_queue, a swap, or a completion by frame_done
EnqueueStep == enqueued' = enqueued + 1
DeliverStep == isr.pc = "deliver" /\ isr'.pc = "idle"

\* C21: the buffer list is first in first out.  buf_queue puts a buffer
\* behind all others; a swap and a completion by frame_done leave the order
\* of the buffers as it is: the head of the list is the buffer installed and
\* the buffer installed first is the buffer completed first, however
\* buf_queue calls and interrupts interleave.
C21_FirstInFirstOut ==
  [][/\ EnqueueStep =>
          \/ Pipeline' = Pipeline /\ fault' # "none"
          \/ \E b \in Buffers : /\ Pipeline' = Append(Pipeline, b)
                                /\ buffer_list' = Append(buffer_list, b)
     /\ (SwapStep \/ DeliverStep) => Pipeline' = Pipeline]_vars

\* during capture two buffers were completed as successful, in the order
\* they were queued, and a buffer queued again after its completion is
\* recorded in a slot behind the others
C21_Witness ==
  /\ Capturing /\ powered /\ isr.pc = "idle"
  /\ Len(completed) = 2
  /\ completed[1].buffer = 1 /\ completed[2].buffer = 2
  /\ buffers[0] = 3 /\ buffers[1] = 1
  /\ buffer_list = <<2>>

\* ---- C22 --------------------------------------------------------------------
\* the step changes nothing of slot s: neither what the slot table records
\* nor the address registers
SlotUntouched(s) == buffers'[s] = buffers[s] /\ regs'.FIFO[s] = regs.FIFO[s]

\* the step is the critical section of engine_start, run to its end
EngineStartStep == ctl.pc = "engine_start" /\ ctl'.pc = "idle"

\* C22: every swap adds exactly 1 to the sequence counter, with the list
\* empty too, and serves the slot whose index is the counter before the
\* addition modulo 2: it takes the old buffer from that slot, writes that
\* slot and its registers, and leaves the other slot alone.  engine_start
\* sets the counter to 0, so the swaps of a session serve slot 0 (registers
\* A), slot 1, slot 0, ... in turn.
C22_SwapAlternatesSlots ==
  [][/\ SwapStep =>
          LET index == sequence % 2 IN
          /\ sequence' = sequence + 1
          /\ isr'.sequence = sequence
          /\ isr'.old = buffers[index]
          /\ SlotUntouched(1 - index)
          /\ regs'.FIFO[index] =
               (IF buffer_list = <<>> THEN dummy_buffer
                ELSE BufferDmaAddr(Head(buffer_list)))
          /\ buffers'[index] =
               (IF buffer_list = <<>> THEN NULL ELSE Head(buffer_list))
     /\ EngineStartStep => sequence' = 0]_vars

\* the second swap of a session: it found the list empty, served slot 1 and
\* counted all the same
C22_Witness ==
  /\ isr.pc = "deliver" /\ isr.session = session /\ Capturing
  /\ isr.sequence = 1 /\ sequence = 2 /\ isr.disabled
  /\ isr.old = 2
  /\ buffers[1] = NULL /\ regs.FIFO[1] = dummy_buffer
  /\ buffers[0] = 3 /\ regs.FIFO[0] = BufferDmaAddr(3)

\* ---- C23 --------------------------------------------------------------------
\* C23: the buffer frame_done completes is the buffer its slot recorded
\* before the swap.  The swap notes it, with the sequence counter as it was
\* before the addition; the completion comes in a later step, when frame_done
\* has released the lock, and completes that buffer as successful with that
\* sequence number.
C23_SwapDeliversOldBuffer ==
  [][/\ SwapStep =>
          /\ isr'.old = buffers[sequence % 2]
          /\ isr'.sequence = sequence /\ isr'.sequence = sequence' - 1
          /\ done_calls' = done_calls /\ completed' = completed
     /\ DeliverStep =>
          /\ buffer_lock # "isr"
          /\ isr.old \in Buffers
          /\ done_calls' = [done_calls EXCEPT ![isr.old] = Append(@, "DONE")]
          /\ completed' = Append(completed, [buffer   |-> isr.old,
                                             sequence |-> isr.sequence,
                                             session  |-> isr.session])
          /\ buf_state[isr.old] = "ACTIVE" => buf_state'[isr.old] = "DONE"]_vars

\* the buffer installed by the first swap of the session was completed by
\* the third as successful, with sequence number 2
C23_Witness ==
  /\ isr.pc = "idle" /\ powered /\ session = 1
  /\ Len(completed) = 3
  /\ completed[3] = [buffer |-> 3, sequence |-> 2, session |-> 1]
  /\ buf_state[3] = "DONE"
  /\ done_calls[3] = <<"DONE">>

\* ---- C24 --------------------------------------------------------------------
\* C24 as stated: a swap that finds the buffer list empty clears the start
\* bit of the capture register, a swap that takes a buffer off the list
\* leaves the register as it is.
C24_SwapClearsCaptureBit ==
  [][SwapStep =>
       IF buffer_list = <<>>
       THEN BitAnd(regs'.CAPTURE, CAPTURE_START) = 0
       ELSE regs'.CAPTURE = regs.CAPTURE]_vars

\* C24: a swap that finds the buffer list empty clears the module enable bit
\* (bit 0 of the enable register) and nothing else of that register; a swap
\* that takes a buffer off the list leaves the enable register as it is.  No
\* swap changes the capture register: its start bit stays set after a swap
\* that found the list empty.
C24_SwapDisablesModule ==
  [][SwapStep =>
       /\ regs'.CAPTURE = regs.CAPTURE
       /\ IF buffer_list = <<>>
          THEN /\ BitAnd(regs'.ENABLE, MODULE_ENABLE) = 0
               /\ regs'.ENABLE = regs.ENABLE - BitAnd(regs.ENABLE, MODULE_ENABLE)
               /\ isr'.disabled
          ELSE /\ regs'.ENABLE = regs.ENABLE
               /\ ~isr'.disabled]_vars

\* a swap during capture found the list empty: the module is disabled, the
\* start bit of the capture register still set
C24_Witness ==
  /\ isr.pc = "deliver" /\ isr.disabled /\ isr.session = session
  /\ powered /\ ctl.pc = "idle"
  /\ BitAnd(regs.ENABLE, MODULE_ENABLE) = 0
  /\ BitAnd(regs.CAPTURE, CAPTURE_START) # 0
  /\ buffer_list = <<>>

\* ---- C25 --------------------------------------------------------------------
\* the engine is set up for capture into the slots as the slot table records
\* them: address registers, double buffering, frame-done interrupt
Seeded ==
  /\ \A s \in Slots : regs.FIFO[s] = SlotAddresses(s)
  /\ regs.BUFFER_CONTROL = 1
  /\ BitAnd(regs.INT_ENABLE, FRAME_DONE) # 0

\* C25: a start_streaming that succeeds records the first buffer of the list
\* in slot 0 and writes its planes to the registers A, the second in slot 1
\* and the registers B, takes both off the list, and sets the sequence
\* counter to 0.  The start bit of the capture register, clear until then,
\* is set in the same critical section, with the addresses, double buffering
\* and the frame-done interrupt programmed: in no state in which the
\* interrupt handler can run is capture started on slots half set up.
C25_StartSeedsSlots ==
  [][/\ EngineStartStep =>
          /\ Len(buffer_list) >= 2
          /\ buffers' = [s \in Slots |-> buffer_list[s + 1]]
          /\ \A s \in Slots : regs'.FIFO[s] = BufferDmaAddr(buffer_list[s + 1])
          /\ buffer_list' = SubSeq(buffer_list, 3, Len(buffer_list))
          /\ sequence' = 0
          /\ BitAnd(regs.CAPTURE, CAPTURE_START) = 0
          /\ BitAnd(regs'.CAPTURE, CAPTURE_START) # 0
          /\ buffer_lock' = "free"
          /\ last' = Called("start_streaming", "0")
     /\ (Capturing /\ buffer_lock = "free")' => Seeded']_vars

\* the second start_streaming has returned 0: the sequence counter, left at 2
\* or more by the session before, is 0, and the slots hold the two buffers
\* that were first on the list
C25_Witness ==
  /\ last = Called("start_streaming", "0") /\ ctl.pc = "idle"
  /\ session = 2 /\ sequence = 0 /\ Capturing /\ Seeded
  /\ buffers[0] = 3 /\ buffers[1] = 1 /\ buffer_list = <<2>>
  /\ \E b \in Buffers : DeliveredWith(b, "DONE")

\* ---- C26 --------------------------------------------------------------------
\* the enabling calls of sun4i_csi1_poweron, and how the log names a call
\* that returned an error
PowerUp ==
  <<"reset_control_deassert", "clk_prepare_enable(bus)",
    "clk_prepare_enable(ram)", "clk_prepare_enable(module)">>

PowerUpFailed ==
  <<"reset_control_deassert:failed", "clk_prepare_enable(bus):failed",
    "clk_prepare_enable(ram):failed", "clk_prepare_enable(module):failed">>

\* the log starts with the enabling calls in order, up to all four or up to
\* the first that failed, and no enabling call follows
PowerUpInOrder(log) ==
  \E n \in 0 .. 4 :
    LET ups == SubSeq(PowerUp, 1, n) \o
               (IF n < 4 THEN <<PowerUpFailed[n + 1]>> ELSE <<>>)
    IN /\ Len(log) >= Len(ups)
       /\ SubSeq(log, 1, Len(ups)) = ups
       /\ \A i \in (Len(ups) + 1) .. Len(log) :
            \A j \in 1 .. 4 : log[i] # PowerUp[j] /\ log[i] # PowerUpFailed[j]

PowerIsUp ==
  power.reset = "deasserted" /\ power.bus /\ power.ram /\ power.module

\* start_streaming has run sun4i_csi1_poweron
PoweronStep ==
  /\ ctl.pc = "idle"
  /\ last'.call = "start_streaming" /\ last'.ret \in {"none", "error"}
  /\ (last' # last \/ power_log' # power_log)

\* C26: sun4i_csi1_poweron deasserts the reset, then enables the bus clock,
\* the ram clock and the module clock, in this order.  Bit 0 of the ENABLE
\* register is set, csi->powered becomes true and engine_start runs only when
\* all four calls succeeded; while the device is powered or capturing, the
\* reset is deasserted and the three clocks are on.
C26_PowerUpInOrder ==
  [][/\ PoweronStep =>
          /\ PowerUpInOrder(power_log')
          /\ (\/ powered'
              \/ ctl'.pc = "engine_start"
              \/ regs'.ENABLE # regs.ENABLE) =>
                (power_log' = PowerUp /\ PowerIsUp')
          /\ power_log' = PowerUp =>
                /\ powered' /\ ctl'.pc = "engine_start"
                /\ BitAnd(regs'.ENABLE, MODULE_ENABLE) # 0
                /\ ~Capturing'
     /\ EngineStartStep =>
          /\ powered /\ PowerIsUp
          /\ BitAnd(regs.ENABLE, MODULE_ENABLE) # 0
     /\ (powered \/ Capturing)' => PowerIsUp']_vars

\* all four steps succeeded and the engine was started: powered, capturing
C26_Witness ==
  /\ last = Called("start_streaming", "0") /\ ctl.pc = "idle"
  /\ power_log = PowerUp /\ PowerIsUp
  /\ powered /\ Capturing
  /\ BitAnd(regs.ENABLE, MODULE_ENABLE) # 0

\* ---- C27 --------------------------------------------------------------------
\* a step of stop_streaming itself, not of the interrupt handler beside it
StopOwnStep ==
  /\ StopStep
  /\ ctl' # ctl \/ fault' # fault

PowerIsDown ==
  power.reset = "asserted" /\ ~power.bus /\ ~power.ram /\ ~power.module

\* C27: stop_streaming clears the capture register before it completes any
\* buffer with an error; when it reaches sun4i_csi1_poweroff no buffer of a
\* slot or of the list is still active; sun4i_csi1_poweroff disables the
\* module clock, the ram clock and the bus clock and asserts the reset, in
\* this order; and every call of stop_streaming runs to this end, no step of
\* it stops short, leaving csi->powered false and clocks and reset down.
C27_StopRunsInOrderToTheEnd ==
  [][/\ (StopStep /\ \E b \in Buffers : ErrorDelivered(b)) => ~Capturing
     /\ StopReturns =>
          /\ \A b \in Buffers : (InList(b) \/ InSlot(b)) => buf_state[b] # "ACTIVE"
          /\ power_log' = <<"clk_disable_unprepare(module)",
                            "clk_disable_unprepare(ram)",
                            "clk_disable_unprepare(bus)",
                            "reset_control_assert">>
          /\ ~powered' /\ PowerIsDown'
     /\ StopOwnStep => fault' = "none"]_vars

\* ---- C28 --------------------------------------------------------------------
\* C28: when a step of sun4i_csi1_poweron fails, start_streaming returns the
\* error and leaves the driver as it was: csi->powered stays false, the list
\* holds the same buffers in the same order, the slots and the sequence
\* counter are untouched, no register is written, no buffer changes hands,
\* engine_start does not run, and reset and clocks are back as before.
C28_PoweronFailureChangesNothing ==
  [][(PoweronStep /\ power_log' # PowerUp) =>
       /\ last' = Called("start_streaming", "error")
       /\ ~powered'
       /\ buffer_list' = buffer_list
       /\ buffers' = buffers /\ sequence' = sequence
       /\ regs' = regs
       /\ ctl' = ctl /\ session' = session
       /\ power' = power
       /\ UNCHANGED <<dummy_buffer, vb2Vars, done_calls>>]_vars

\* after a first session that left slots and sequence counter behind, three
\* buffers are queued again and the module clock fails to start
C28_Witness ==
  /\ last = Called("start_streaming", "error")
  /\ power_log = poweron_calls(4)
  /\ ~powered /\ PowerIsDown /\ ctl.pc = "idle"
  /\ session = 1 /\ sequence = 1 /\ buffers[0] = 3
  /\ buffer_list = <<2, 1, 3>>
  /\ ~Capturing

\* ---- C29 --------------------------------------------------------------------
\* a session has run and stop_streaming has returned
Stopped == ~powered /\ ctl.pc = "idle" /\ session >= 1

\* a step of sun4i_csi1_isr or of sun4i_csi1_frame_done
IsrStep == isr' # isr

\* C29: once stop_streaming has returned, the interrupt handler serving a
\* late frame-done interrupt completes no buffer and leaves the slots, the
\* list and the sequence counter as they are.
C29_LateInterruptIgnored ==
  [][(Stopped /\ IsrStep) =>
       /\ buffers' = buffers
       /\ buffer_list' = buffer_list
       /\ sequence' = sequence
       /\ done_calls' = done_calls /\ buf_state' = buf_state]_vars

\* ---- C30 --------------------------------------------------------------------
\* C30: buf_queue adds the buffer at the tail of the list and does nothing
\* else: the list it finds is kept as it is in front of the new entry, and
\* the slots, every register (the address registers, the capture and the
\* enable register among them), the sequence counter and csi->powered are
\* left as they are, so that a buffer queued after the engine starved does
\* not start it again.
C30_EnqueueOnlyAppends ==
  [][EnqueueStep =>
       /\ \E b \in Buffers :
            /\ buf_state[b] # "ACTIVE" /\ buf_state'[b] = "ACTIVE"
            /\ buffer_list' = Append(buffer_list, b)
       /\ fault' = "none"
       /\ buffers' = buffers
       /\ regs' = regs
       /\ sequence' = sequence
       /\ powered' = powered]_vars

\* ---- C31 --------------------------------------------------------------------
\* a call of sun4i_csi1_dummy_buffer_free returns
FreeStep == ctl.pc \in {"dummy_free", "alloc_failed"} /\ ctl'.pc # ctl.pc

\* C31: sun4i_csi1_dummy_buffer_free called with no plane allocated frees
\* nothing and changes nothing, and a second call after any call is such a
\* call; a call frees each plane that is allocated once, and no plane is ever
\* freed that is not allocated at the time.
C31_FreeIdempotent ==
  [][/\ FreeStep =>
          /\ dummy_buffer = NoDummy =>
               /\ dma_log' = <<>>
               /\ dma_live' = dma_live /\ dummy_buffer' = dummy_buffer
          /\ dummy_buffer_free(dummy_buffer') = dummy_buffer'
          /\ dummy_buffer' = NoDummy
          /\ \A p \in Planes :
               IF dummy_buffer[p] # 0
               THEN dma_live[p] = 1 /\ dma_live'[p] = 0
               ELSE dma_live[p] = 0 /\ dma_live'[p] = 0
     /\ \A p \in Planes : dma_live'[p] >= 0]_vars

\* the dummy buffer of an earlier request was freed on entry of
\* dummy_buffer_alloc, the first dma_alloc_coherent failed, and the free that
\* followed found nothing allocated
C31_Witness ==
  /\ last = Called("queue_setup", "-ENOMEM") /\ ctl.pc = "idle"
  /\ num_buffers = NumBuffers
  /\ dma_log = <<>>
  /\ dummy_buffer = NoDummy
  /\ \A p \in Planes : dma_live[p] = 0

\* ---- C32 --------------------------------------------------------------------
\* the allocation loop of sun4i_csi1_dummy_buffer_alloc runs
AllocStep == ctl.pc = "alloc_planes" /\ ctl'.pc # ctl.pc

\* queue_setup returns what sun4i_csi1_dummy_buffer_alloc returned
AllocReturns == ctl.op = "queue_setup" /\ ctl'.pc = "idle" /\ ctl.pc # "idle"

\* C32: sun4i_csi1_dummy_buffer_alloc frees the dummy buffer before it
\* allocates: the allocation loop finds no plane allocated, so that at any
\* time a plane has at most one allocation, the one the dummy buffer holds.
\* A call in which every plane is allocated returns 0; a call in which a
\* dma_alloc_coherent fails frees the planes it had got and returns -ENOMEM
\* with no plane allocated.
C32_AllocFreesFirst ==
  [][/\ AllocStep =>
          /\ dummy_buffer = NoDummy
          /\ \A p \in Planes : dma_live[p] = 0
     /\ AllocReturns =>
          \/ /\ last'.ret = "0"
             /\ \A p \in Planes : dummy_buffer'[p] # 0
          \/ /\ last'.ret = "-ENOMEM"
             /\ ctl.pc = "alloc_failed"
             /\ dummy_buffer' = NoDummy
             /\ \A p \in Planes : dma_live'[p] = 0
     /\ \A p \in Planes :
          /\ dma_live'[p] <= 1
          /\ dma_live'[p] = 1 <=> dummy_buffer'[p] # 0]_vars

\* the dummy buffer of an earlier request was freed, two planes were
\* allocated anew, the third allocation failed and the two were freed again
C32_Witness ==
  /\ last = Called("queue_setup", "-ENOMEM") /\ ctl.pc = "idle"
  /\ num_buffers = NumBuffers
  /\ dma_log = <<0, 1>>
  /\ dummy_buffer = NoDummy
  /\ \A p \in Planes : dma_live[p] = 0

\* ---- C33 --------------------------------------------------------------------
\* sun4i_csi1_isr writes INT_STATUS: status bits are cleared
AckStep == regs'.INT_STATUS # regs.INT_STATUS /\ isr.pc = "idle" /\ isr'.pc # "deliver"
             /\ BitAnd(regs'.INT_STATUS, regs.INT_STATUS) = regs'.INT_STATUS

\* C33: entered with a status, sun4i_csi1_isr acknowledges the bits it read
\* and no other, in its critical section and with the slots, the list and the
\* sequence counter as they are; it goes on to sun4i_csi1_frame_done when the
\* status has the frame-done bit, and returns without it otherwise.  The
\* swap runs only from there and once: it ends the handler's wait, and the
\* handler swaps again only after it was entered again.
C33_OneSwapPerFrameDone ==
  [][/\ AckStep =>
          /\ buffer_lock = "free" /\ buffer_lock' = "free"
          /\ isr'.value = regs.INT_STATUS
          /\ regs'.INT_STATUS = regs.INT_STATUS - isr'.value
          /\ regs' = [regs EXCEPT !.INT_STATUS = regs'.INT_STATUS]
          /\ isr'.pc = IF BitAnd(regs.INT_STATUS, FRAME_DONE) # 0
                       THEN "frame_done" ELSE "idle"
          /\ UNCHANGED <<csiVars, vb2Vars, done_calls>>
     /\ (isr'.pc = "frame_done" /\ isr.pc # "frame_done") => AckStep
     /\ (isr'.pc = "deliver" /\ isr.pc # "deliver") =>
          /\ isr.pc = "frame_done"
          /\ BitAnd(isr.value, FRAME_DONE) # 0
          /\ sequence' = sequence + 1
     /\ (isr.pc # "frame_done" /\ isr' # isr /\ ~AckStep) =>
          UNCHANGED <<buffers, buffer_list, sequence>>
     /\ (isr.pc = "frame_done" /\ isr' # isr) => isr'.pc = "deliver"]_vars

\* after one swap the handler was entered with the other status bit alone:
\* it has acknowledged the bit and returned, and no second swap has run
C33_Witness ==
  /\ isr.pc = "idle" /\ isr.value = STATUS_OTHER
  /\ regs.INT_STATUS = 0
  /\ powered /\ Capturing /\ ctl.pc = "idle"
  /\ sequence = 1 /\ Len(completed) = 1

\* ---- C34 --------------------------------------------------------------------
\* C34: a swap serving slot i writes csi->buffers[i] and the address
\* registers of slot i only: the entry of the other slot and its address
\* registers (the registers B for i = 0, A for i = 1) stay as they are, and
\* of the other registers only ENABLE may change.
C34_SwapLeavesOtherSlot ==
  [][SwapStep =>
       LET i == sequence % 2 IN
       /\ \A s \in Slots \ {i} :
            /\ buffers'[s] = buffers[s]
            /\ \A p \in Planes : regs'.FIFO[s][p] = regs.FIFO[s][p]
       /\ buffers' = [buffers EXCEPT ![i] = buffers'[i]]
       /\ regs' = [regs EXCEPT !.FIFO[i] = regs'.FIFO[i],
                               !.ENABLE = regs'.ENABLE]]_vars

\* the second swap of a session served slot 1 with the list empty; slot 0
\* and the registers A still hold the buffer the first swap installed
C34_Witness ==
  /\ isr.pc = "deliver" /\ isr.sequence = 1 /\ isr.old = 2
  /\ sequence = 2 /\ powered /\ isr.session = session
  /\ buffers[0] = 3 /\ regs.FIFO[0] = BufferDmaAddr(3)
  /\ buffers[1] = NULL /\ regs.FIFO[1] = dummy_buffer

\* ---- C35 --------------------------------------------------------------------
\* C35: a swap that finds the list empty writes the addresses of a dummy
\* buffer that is allocated: every plane has an address that is not 0 and
\* the memory behind it has not been freed, however the interrupt falls
\* among the steps of queue_setup.
C35_SwapProgramsLiveDummy ==
  [][(SwapStep /\ buffer_list = <<>>) =>
       /\ \A p \in Planes : dummy_buffer[p] # 0 /\ dma_live[p] = 1
       /\ \A p \in Planes : regs'.FIFO[sequence % 2][p] # 0]_vars

\* ---- C36 --------------------------------------------------------------------
\* sun4i_sprites_crtc_atomic_check runs
SpritesCheckStep == sprites_ret = "none" /\ sprites_ret' # "none"

\* the sprites enabled on the crtc
EnabledSprites == crtc_state.plane_mask \cap backend_sprites_mask

\* C36: with zpos changed and a sprite enabled, the check gives the enabled
\* sprites the block ids 0 .. count - 1, each once, rising with zpos and,
\* among sprites of one zpos, with the plane index; the sprites that are not
\* enabled keep their block ids.  With zpos unchanged or no sprite enabled no
\* block id is written.  The check returns 0 and writes no zpos.
C36_BlockIdsSortedByZpos ==
  [][SpritesCheckStep =>
       /\ sprites_ret' = "0"
       /\ \A p \in SpritePlanes : sprite_states'[p].zpos = sprite_states[p].zpos
       /\ IF crtc_state.zpos_changed /\ EnabledSprites # {}
          THEN /\ {sprite_states'[p].block_id : p \in EnabledSprites} =
                    0 .. (Cardinality(EnabledSprites) - 1)
               /\ \A p, q \in EnabledSprites :
                    (\/ sprite_states[p].zpos < sprite_states[q].zpos
                     \/ /\ sprite_states[p].zpos = sprite_states[q].zpos
                        /\ p < q) =>
                      sprite_states'[p].block_id < sprite_states'[q].block_id
               /\ \A p \in SpritePlanes \ EnabledSprites :
                    sprite_states'[p] = sprite_states[p]
          ELSE sprite_states' = sprite_states]_vars

\* three sprites enabled beside the layer, the first and the last at zpos 2
\* and the one between them at zpos 0: it has block 0, the two others follow
\* by plane index
C36_Witness ==
  /\ sprites_ret = "0"
  /\ crtc_state = [zpos_changed |-> TRUE, plane_mask |-> DrmPlanes]
  /\ sprite_states = [p \in SpritePlanes |->
                        IF p = 2 THEN [zpos |-> 0, block_id |-> 0]
                        ELSE [zpos |-> 2, block_id |-> IF p = 1 THEN 1 ELSE 2]]

\* ---- C37 --------------------------------------------------------------------
\* sun4i_backend_layer_atomic_check runs
LayerCheckStep == layer_ret = "none" /\ layer_ret' # "none"

\* the plane state asks for scaling: a size on the crtc, shifted left by 16
\* in 32 bits, is not the size of the source
Scaled ==
  \/ plane_state.src_w # [int |-> plane_state.crtc_w % 65536, frac |-> 0]
  \/ plane_state.src_h # [int |-> plane_state.crtc_h % 65536, frac |-> 0]

\* C37: for a layer without frontend the check returns -EINVAL when the
\* plane state is scaled and 0 when it is not, and leaves uses_frontend as it
\* was either way; for a layer with a frontend it returns 0 and sets
\* uses_frontend to true when the state is scaled or its framebuffer has a
\* YUV format, and to false otherwise.  Nothing else of the states changes.
C37_LayerUsesFrontend ==
  [][LayerCheckStep =>
       /\ IF layer.frontend
          THEN /\ layer_ret' = "0"
               /\ layer_state'.uses_frontend = (Scaled \/ plane_state.fb = "yuv")
          ELSE /\ layer_ret' = IF Scaled THEN "-EINVAL" ELSE "0"
               /\ layer_state'.uses_frontend = layer_state.uses_frontend
       /\ UNCHANGED <<layer, plane_state>>]_vars

\* a layer without frontend, its state scaled in height only and
\* uses_frontend set: the check has refused it and uses_frontend is still set
C37_Witness ==
  /\ layer_ret = "-EINVAL"
  /\ ~layer.frontend
  /\ plane_state.crtc_w = 1 /\ plane_state.src_w = [int |-> 1, frac |-> 0]
  /\ plane_state.crtc_h = 1 /\ plane_state.src_h = [int |-> 2, frac |-> 0]
  /\ layer_state.uses_frontend
====
